---- MODULE Spec2Model ----
(***************************************************************************)
(* Model of the browser session orchestrator of luminate-cookbook          *)
(* (src/app/services/browser_manager.py) together with the parts of        *)
(* src/app/main.py that call it.                                           *)
(*                                                                         *)
(* Granularity.  The manager runs on one asyncio event loop, so a          *)
(* coroutine runs atomically from one await to the next: every action      *)
(* below is one such slice.  Blocking Playwright calls run on worker       *)
(* threads (loop.run_in_executor); a worker's writes to the session        *)
(* object are separate steps, and the completion of a worker is one step   *)
(* together with the slice of the coroutine that awaited it.  An           *)
(* uncontended asyncio.Lock is acquired without yielding.                  *)
(***************************************************************************)
EXTENDS Integers, Sequences, FiniteSets, Bags, TLC

\* ------------------------------------------------------------------ bounds
NumIds == 3                \* most upload requests (session ids) in a run
MaxFiles == 2              \* most files in one upload request
MaxSubmits == 2            \* most overlapping submit_2fa calls per session
MaxCancels == 2            \* most overlapping cancel_session calls per session
MaxOverlap == 1            \* most calls in flight when several requests are made
ShortTick == 400           \* wall-clock advance of one Tick, one request
LongTick == 700            \* wall-clock advance of one Tick, several requests
MaxTime == 800             \* last wall-clock value explored

\* ------------------------------------------------------- program constants
\* settings.max_concurrent_sessions is read from the environment (default
\* 10); the deployment explored here sets it to 2.
MaxConcurrentSessions == 2
SessionTimeoutSeconds == 600     \* settings.session_timeout_seconds
Max2faWaitSeconds == 90          \* settings.max_2fa_wait_seconds

Ids == 1..NumIds

\* Client traffic explored: several upload requests of one file each, with
\* at most MaxOverlap calls in flight when a further call starts; or one
\* upload request of several files that is hit by overlapping submit_2fa
\* calls; or one upload request that is hit by overlapping cancel_session
\* calls.  tick is the step of the wall clock.
Unlimited == 1 + MaxSubmits + MaxCancels
Loads ==
  { [ids |-> NumIds, files |-> 1, submits |-> 1, cancels |-> 1,
     overlap |-> MaxOverlap, tick |-> LongTick],
    [ids |-> 1, files |-> MaxFiles, submits |-> MaxSubmits, cancels |-> 1,
     overlap |-> Unlimited, tick |-> ShortTick],
    [ids |-> 1, files |-> 1, submits |-> 1, cancels |-> MaxCancels,
     overlap |-> Unlimited, tick |-> ShortTick] }

\* SessionState (src/app/models/schemas.py); "none" = no such object yet
SessionState == {"initializing", "login", "awaiting_2fa", "authenticated",
                 "uploading", "done", "error", "cancelled"}
Terminal == {"done", "error", "cancelled"}

VARIABLES
  load,                \* the client traffic of this run, one of Loads
  now,                 \* time.time()
  nextId,              \* next fresh session id
  sessions,            \* keys of BrowserSessionManager._sessions
  lock,                \* holder of BrowserSessionManager._lock across awaits
  state,               \* BrowserSession.state
  playwright,          \* BrowserSession.playwright is a live object
  browser,             \* BrowserSession.browser is a live object
  created_at,          \* BrowserSession.created_at
  files_to_upload,     \* len(BrowserSession.files_to_upload)
  current_file_index,  \* BrowserSession.current_file_index
  results,             \* BrowserSession.results, as <<item, success>> pairs
  error,               \* BrowserSession.error is not None
  temp_dir,            \* the request's temp directory exists on disk
  procs,               \* bag of suspended coroutines / running workers
  reaper,              \* the cleanup_loop task
  shut,                \* the shutdown() call of the lifespan handler
  waited2fa,           \* history: seconds spent so far in AWAITING_2FA
  ret,                 \* value returned by the API call that ended last
  url,                 \* clean_url: query parameters of the url argument
  strip_tracking,      \* clean_url: the strip_tracking argument
  cleaned              \* clean_url: query parameters of the returned URL

vars == <<load, now, nextId, sessions, lock, state, playwright, browser, created_at,
          files_to_upload, current_file_index, results, error, temp_dir,
          procs, reaper, shut, waited2fa, ret, url, strip_tracking, cleaned>>

\* The variables of the session manager.
mgrVars == <<load, now, nextId, sessions, lock, state, playwright, browser,
             created_at, files_to_upload, current_file_index, results, error,
             temp_dir, procs, reaper, shut, waited2fa, ret>>

sessVars == <<state, playwright, browser, created_at, files_to_upload,
              current_file_index, results, error, temp_dir>>

\* ---------------------------------------------------------------- helpers
NoRet == [op |-> "none", sid |-> 0, val |-> "none"]
Ret(op, s, v) == [op |-> op, sid |-> s, val |-> v]

\* A suspended coroutine of operation op on session s: pc is the await it is
\* at (for a cleanup, the stage of its worker); i is the file index of an
\* upload, and for a cancel 1 when the session was not terminal at the call.
P(op, s, pc, i) == [op |-> op, sid |-> s, pc |-> pc, i |-> i]
Spawn(b, p) == b (+) SetToBag({p})
Kill(b, p) == b (-) SetToBag({p})
Running(p) == BagIn(p, procs)
ProcsOf(s) == {p \in BagToSet(procs) : p.sid = s}
\* A further client call may start.
MayCall == BagCardinality(procs) < load.overlap

CountOf(op, s) ==
  LET ps == {p \in ProcsOf(s) : p.op = op}
      RECURSIVE Sum(_)
      Sum(S) == IF S = {} THEN 0
                ELSE LET p == CHOOSE q \in S : TRUE
                     IN CopiesIn(p, procs) + Sum(S \ {p})
  IN Sum(ps)

\* The wait in AWAITING_2FA ends when the state is overwritten.
WaitedAfter(st) ==
  [s \in Ids |-> IF st[s] = "awaiting_2fa" THEN waited2fa[s] ELSE 0]

\* Order in which a loop over self._sessions visits the ids of S (a dict
\* keeps insertion order; ids are drawn in increasing order).
RECURSIVE SortedSeq(_)
SortedSeq(S) ==
  IF S = {} THEN <<>>
  ELSE LET m == CHOOSE x \in S : \A y \in S : x <= y
       IN <<m>> \o SortedSeq(S \ {m})

\* BrowserSession.is_expired
is_expired(s) == now - created_at[s] > SessionTimeoutSeconds

\* _sync_cleanup_browser, first half: what the worker finds when it starts
CleanupStage(s) ==
  IF browser[s] THEN "closing"
  ELSE IF playwright[s] THEN "stopping" ELSE "noop"

\* _sync_cleanup_browser, second half: the fields once the worker is through
BrowserAfter(s, stage) == IF stage = "closing" THEN FALSE ELSE browser[s]
PlaywrightAfter(s, stage) == IF stage = "noop" THEN playwright[s] ELSE FALSE

\* The manager after __init__, serving the client traffic of L.
InitWith(L) ==
  /\ load \in L
  /\ now = 0
  /\ nextId = 1
  /\ sessions = {}
  /\ lock = "free"
  /\ state = [s \in Ids |-> "none"]
  /\ playwright = [s \in Ids |-> FALSE]
  /\ browser = [s \in Ids |-> FALSE]
  /\ created_at = [s \in Ids |-> 0]
  /\ files_to_upload = [s \in Ids |-> 0]
  /\ current_file_index = [s \in Ids |-> 0]
  /\ results = [s \in Ids |-> <<>>]
  /\ error = [s \in Ids |-> FALSE]
  /\ temp_dir = [s \in Ids |-> FALSE]
  /\ procs = EmptyBag
  /\ reaper = [pc |-> "sleep", todo |-> <<>>, cur |-> 0, stage |-> "noop"]
  /\ shut = [pc |-> "idle", todo |-> <<>>, cur |-> 0, stage |-> "noop"]
  /\ waited2fa = [s \in Ids |-> 0]
  /\ ret = NoRet

\* No call of clean_url is under way.
NotCalled == <<[name |-> "none", val |-> "none"]>>
UrlIdle == url = <<>> /\ strip_tracking = TRUE /\ cleaned = NotCalled

Init == InitWith(Loads) /\ UrlIdle

\* Wall-clock time passes.
Tick ==
  /\ now + load.tick <= MaxTime
  /\ now' = now + load.tick
  /\ waited2fa' = [s \in Ids |->
        IF state[s] = "awaiting_2fa" /\ waited2fa[s] <= Max2faWaitSeconds
        THEN waited2fa[s] + load.tick ELSE waited2fa[s]]
  /\ ret' = NoRet
  /\ UNCHANGED <<url, strip_tracking, cleaned, load, nextId, sessions, lock, sessVars, procs, reaper, shut>>

\* ------------------------------------------------------------ create_session
\* The capacity check one slot short.
AtCapacityEarly == Cardinality(sessions) >= MaxConcurrentSessions - 1

\* The capacity check with > for >=.
AtCapacityOff == Cardinality(sessions) > MaxConcurrentSessions

\* The capacity check counting only the sessions that are not terminal.
AtCapacityLive ==
  Cardinality({t \in sessions : state[t] \notin Terminal}) >= MaxConcurrentSessions

\* len(self._sessions) >= settings.max_concurrent_sessions
AtCapacity == Cardinality(sessions) >= MaxConcurrentSessions

\* Register with the insert done before the capacity check.
RegisterOff(s, b) ==
  /\ sessions' = sessions \cup {s}
  /\ IF AtCapacity
     THEN /\ procs' = b
          /\ ret' = Ret("create", s, "capacity")
     ELSE /\ procs' = Spawn(b, P("create", s, "init", 0))
          /\ ret' = NoRet

\* Body of `async with self._lock` in create_session, then the dispatch of
\* _initialize_browser; b is the bag of the other coroutines.
Register(s, b) ==
  IF AtCapacity
  THEN /\ sessions' = sessions
       /\ procs' = b
       /\ ret' = Ret("create", s, "capacity")
  ELSE /\ sessions' = sessions \cup {s}
       /\ procs' = Spawn(b, P("create", s, "init", 0))
       /\ ret' = NoRet

\* upload_start saves n files to a fresh temp directory and calls
\* create_session, which builds the BrowserSession and takes the lock.
create_session(n) ==
  /\ nextId <= load.ids
  /\ n <= load.files
  /\ MayCall
  /\ shut.pc = "idle"
  /\ LET s == nextId IN
     /\ nextId' = nextId + 1
     /\ state' = [state EXCEPT ![s] = "initializing"]
     /\ created_at' = [created_at EXCEPT ![s] = now]
     /\ files_to_upload' = [files_to_upload EXCEPT ![s] = n]
     /\ temp_dir' = [temp_dir EXCEPT ![s] = TRUE]
     /\ IF lock = "free"
        THEN Register(s, procs)
        ELSE /\ procs' = Spawn(procs, P("create", s, "lock", 0))
             /\ sessions' = sessions
             /\ ret' = NoRet
  /\ UNCHANGED <<url, strip_tracking, cleaned, load, now, lock, playwright, browser, current_file_index, results,
                 error, reaper, shut, waited2fa>>

\* create_session gets the lock it was waiting for.
create_session_locked(s) ==
  /\ Running(P("create", s, "lock", 0))
  /\ lock = "free"
  /\ Register(s, Kill(procs, P("create", s, "lock", 0)))
  /\ UNCHANGED <<url, strip_tracking, cleaned, load, now, nextId, lock, sessVars, reaper, shut, waited2fa>>

\* _sync_initialize_browser: sync_playwright().start() has returned.
sync_initialize_browser_started(s) ==
  /\ Running(P("create", s, "init", 0))
  /\ playwright' = [playwright EXCEPT ![s] = TRUE]
  /\ procs' = Spawn(Kill(procs, P("create", s, "init", 0)),
                    P("create", s, "launch", 0))
  /\ ret' = NoRet
  /\ UNCHANGED <<url, strip_tracking, cleaned, load, now, nextId, sessions, lock, state, browser, created_at,
                 files_to_upload, current_file_index, results, error,
                 temp_dir, reaper, shut, waited2fa>>

\* _sync_initialize_browser returns; create_session goes on to the login.
initialize_browser_done(s) ==
  /\ Running(P("create", s, "launch", 0))
  /\ browser' = [browser EXCEPT ![s] = TRUE]
  /\ state' = [state EXCEPT ![s] = "login"]
  /\ procs' = Spawn(Kill(procs, P("create", s, "launch", 0)),
                    P("create", s, "login", 0))
  /\ ret' = NoRet
  /\ waited2fa' = WaitedAfter(state')
  /\ UNCHANGED <<url, strip_tracking, cleaned, load, now, nextId, sessions, lock, playwright, created_at,
                 files_to_upload, current_file_index, results, error,
                 temp_dir, reaper, shut>>

\* _sync_initialize_browser raises (before start(), in launch(), or after
\* the launch in new_context/new_page: launched says which); the except
\* branch of create_session records the error and starts _cleanup_session.
initialize_browser_failed(s, launched) ==
  \E pc \in {"init", "launch"} :
    /\ Running(P("create", s, pc, 0))
    /\ launched => pc = "launch"
    /\ LET br == browser[s] \/ launched
           stage == IF br THEN "closing"
                    ELSE IF playwright[s] THEN "stopping" ELSE "noop"
       IN /\ browser' = [browser EXCEPT ![s] = br]
          /\ procs' = Spawn(Kill(procs, P("create", s, pc, 0)),
                            P("create", s, stage, 0))
    /\ state' = [state EXCEPT ![s] = "error"]
    /\ error' = [error EXCEPT ![s] = TRUE]
    /\ ret' = NoRet
    /\ waited2fa' = WaitedAfter(state')
    /\ UNCHANGED <<url, strip_tracking, cleaned, load, now, nextId, sessions, lock, playwright, created_at,
                   files_to_upload, current_file_index, results, temp_dir,
                   reaper, shut>>

\* _cleanup_session of the except branch is through; create_session returns.
create_session_cleaned(s) ==
  \E stage \in {"closing", "stopping", "noop"} :
    /\ Running(P("create", s, stage, 0))
    /\ browser' = [browser EXCEPT ![s] = BrowserAfter(s, stage)]
    /\ playwright' = [playwright EXCEPT ![s] = PlaywrightAfter(s, stage)]
    /\ temp_dir' = [temp_dir EXCEPT ![s] = FALSE]
    /\ procs' = Kill(procs, P("create", s, stage, 0))
    /\ ret' = Ret("create", s, state[s])
    /\ UNCHANGED <<url, strip_tracking, cleaned, load, now, nextId, sessions, lock, state, created_at,
                   files_to_upload, current_file_index, results, error,
                   reaper, shut, waited2fa>>

\* State create_session records for a login outcome (lines 134-146).
LoginState(outcome) ==
  CASE outcome = "error" -> "error"
    [] outcome = "needs_2fa" -> "awaiting_2fa"
    [] OTHER -> "authenticated"

\* perform_login_done without the create_task of _perform_uploads.
perform_login_doneOff(s, outcome) ==
  /\ Running(P("create", s, "login", 0))
  /\ state' = [state EXCEPT ![s] = LoginState(outcome)]
  /\ error' = [error EXCEPT ![s] = error[s] \/ outcome = "error"]
  /\ procs' = Kill(procs, P("create", s, "login", 0))
  /\ ret' = Ret("create", s, LoginState(outcome))
  /\ waited2fa' = WaitedAfter(state')
  /\ UNCHANGED <<url, strip_tracking, cleaned, load, now, nextId, sessions, lock, playwright, browser,
                 created_at, files_to_upload, current_file_index, results,
                 temp_dir, reaper, shut>>

\* _perform_login returns (needs_2fa, error); create_session applies it and
\* returns, after creating the _perform_uploads task on success.
perform_login_done(s, outcome) ==
  /\ Running(P("create", s, "login", 0))
  /\ state' = [state EXCEPT ![s] = LoginState(outcome)]
  /\ error' = [error EXCEPT ![s] = error[s] \/ outcome = "error"]
  /\ procs' = IF LoginState(outcome) = "authenticated"
              THEN Spawn(Kill(procs, P("create", s, "login", 0)),
                         P("upload", s, "new", 0))
              ELSE Kill(procs, P("create", s, "login", 0))
  /\ ret' = Ret("create", s, LoginState(outcome))
  /\ waited2fa' = WaitedAfter(state')
  /\ UNCHANGED <<url, strip_tracking, cleaned, load, now, nextId, sessions, lock, playwright, browser,
                 created_at, files_to_upload, current_file_index, results,
                 temp_dir, reaper, shut>>

\* --------------------------------------------------------------- submit_2fa
\* submit_2fa without the check of the state: the code is dispatched for
\* every registered session.
submit_2faOff(s) ==
  /\ s < nextId
  /\ shut.pc = "idle"
  /\ IF s \notin sessions
     THEN /\ ret' = Ret("submit", s, "not_found")
          /\ procs' = procs
     ELSE /\ MayCall
          /\ CountOf("submit", s) < load.submits
          /\ procs' = Spawn(procs, P("submit", s, "wait", 0))
          /\ ret' = NoRet
  /\ UNCHANGED <<url, strip_tracking, cleaned, load, now, nextId, sessions, lock, sessVars, reaper, shut,
                 waited2fa>>

\* submit_2fa up to its first await: the two early returns, or the dispatch
\* of the code to _sync_submit_2fa_code.
submit_2fa(s) ==
  /\ s < nextId
  /\ shut.pc = "idle"
  /\ IF s \notin sessions
     THEN /\ ret' = Ret("submit", s, "not_found")
          /\ procs' = procs
     ELSE IF state[s] # "awaiting_2fa"
     THEN /\ ret' = Ret("submit", s, "not_awaiting")
          /\ procs' = procs
     ELSE /\ MayCall
          /\ CountOf("submit", s) < load.submits
          /\ procs' = Spawn(procs, P("submit", s, "wait", 0))
          /\ ret' = NoRet
  /\ UNCHANGED <<url, strip_tracking, cleaned, load, now, nextId, sessions, lock, sessVars, reaper, shut,
                 waited2fa>>

\* SubmitState with a wrong code treated like a failure of the call.
SubmitStateOff(s, outcome) ==
  CASE outcome = "ok" -> "authenticated"
    [] outcome = "raise" -> "error"
    [] OTHER -> "error"

\* State submit_2fa leaves the session in for an outcome of the agent call
\* (lines 182-197); "raise" is the await itself failing.
SubmitState(s, outcome) ==
  CASE outcome = "ok" -> "authenticated"
    [] outcome = "raise" -> "error"
    [] OTHER -> state[s]

\* _submit_2fa_code returns (success, error) or raises; submit_2fa applies it
\* and returns, after creating the _perform_uploads task on success.
submit_2fa_done(s, outcome) ==
  /\ Running(P("submit", s, "wait", 0))
  /\ state' = [state EXCEPT ![s] = SubmitState(s, outcome)]
  /\ error' = [error EXCEPT ![s] = error[s] \/ outcome = "raise"]
  /\ procs' = IF outcome = "ok"
              THEN Spawn(Kill(procs, P("submit", s, "wait", 0)),
                         P("upload", s, "new", 0))
              ELSE Kill(procs, P("submit", s, "wait", 0))
  /\ ret' = Ret("submit", s, outcome)
  /\ waited2fa' = WaitedAfter(state')
  /\ UNCHANGED <<url, strip_tracking, cleaned, load, now, nextId, sessions, lock, playwright, browser,
                 created_at, files_to_upload, current_file_index, results,
                 temp_dir, reaper, shut>>

\* ----------------------------------------------------------- cancel_session
\* cancel_session up to its first await: not found, or mark the session
\* CANCELLED and start _cleanup_session.
cancel_session(s) ==
  /\ s < nextId
  /\ shut.pc = "idle"
  /\ IF s \notin sessions
     THEN /\ ret' = Ret("cancel", s, "false")
          /\ UNCHANGED <<state, procs>>
     ELSE /\ MayCall
          /\ CountOf("cancel", s) < load.cancels
          /\ state' = [state EXCEPT ![s] = "cancelled"]
          /\ procs' = Spawn(procs, P("cancel", s, CleanupStage(s),
                                     IF state[s] \in Terminal THEN 0 ELSE 1))
          /\ ret' = NoRet
  /\ waited2fa' = WaitedAfter(state')
  /\ UNCHANGED <<url, strip_tracking, cleaned, load, now, nextId, sessions, lock, playwright, browser,
                 created_at, files_to_upload, current_file_index, results,
                 error, temp_dir, reaper, shut>>

\* _cleanup_session of cancel_session is through; the session is popped
\* under the lock, at once when the lock is free.
cancel_session_cleaned(s) ==
  \E stage \in {"closing", "stopping", "noop"}, i \in {0, 1} :
    /\ Running(P("cancel", s, stage, i))
    /\ browser' = [browser EXCEPT ![s] = BrowserAfter(s, stage)]
    /\ playwright' = [playwright EXCEPT ![s] = PlaywrightAfter(s, stage)]
    /\ temp_dir' = [temp_dir EXCEPT ![s] = FALSE]
    /\ IF lock = "free"
       THEN /\ sessions' = sessions \ {s}
            /\ procs' = Kill(procs, P("cancel", s, stage, i))
            /\ ret' = Ret("cancel", s, "true")
       ELSE /\ sessions' = sessions
            /\ procs' = Spawn(Kill(procs, P("cancel", s, stage, i)),
                              P("cancel", s, "lock", i))
            /\ ret' = NoRet
    /\ UNCHANGED <<url, strip_tracking, cleaned, load, now, nextId, lock, state, created_at,
                   files_to_upload, current_file_index, results, error,
                   reaper, shut, waited2fa>>

\* cancel_session gets the lock it was waiting for.
cancel_session_locked(s) ==
  \E i \in {0, 1} :
    /\ Running(P("cancel", s, "lock", i))
    /\ lock = "free"
    /\ sessions' = sessions \ {s}
    /\ procs' = Kill(procs, P("cancel", s, "lock", i))
    /\ ret' = Ret("cancel", s, "true")
    /\ UNCHANGED <<url, strip_tracking, cleaned, load, now, nextId, lock, sessVars, reaper, shut,
                   waited2fa>>

\* --------------------------------------------------------- _perform_uploads
\* The _perform_uploads task runs for the first time: UPLOADING, and the
\* first file goes to the worker pool.
perform_uploads(s) ==
  /\ Running(P("upload", s, "new", 0))
  /\ state' = [state EXCEPT ![s] = "uploading"]
  /\ current_file_index' = [current_file_index EXCEPT ![s] = 0]
  /\ procs' = Spawn(Kill(procs, P("upload", s, "new", 0)),
                    P("upload", s, "item", 0))
  /\ ret' = NoRet
  /\ waited2fa' = WaitedAfter(state')
  /\ UNCHANGED <<url, strip_tracking, cleaned, load, now, nextId, sessions, lock, playwright, browser,
                 created_at, files_to_upload, results, error, temp_dir,
                 reaper, shut>>

\* _sync_upload_file returns for file i: the result is appended, then either
\* the next file is dispatched or the run ends in DONE and _cleanup_browser.
sync_upload_file_done(s, i, ok) ==
  /\ Running(P("upload", s, "item", i))
  /\ results' = [results EXCEPT ![s] = Append(@, <<i, ok>>)]
  /\ IF i + 1 < files_to_upload[s]
     THEN /\ current_file_index' = [current_file_index EXCEPT ![s] = i + 1]
          /\ procs' = Spawn(Kill(procs, P("upload", s, "item", i)),
                            P("upload", s, "item", i + 1))
          /\ state' = state
     ELSE /\ current_file_index' =
               [current_file_index EXCEPT ![s] = files_to_upload[s]]
          /\ state' = [state EXCEPT ![s] = "done"]
          /\ procs' = Spawn(Kill(procs, P("upload", s, "item", i)),
                            P("upload", s, CleanupStage(s), 0))
  /\ ret' = NoRet
  /\ waited2fa' = WaitedAfter(state')
  /\ UNCHANGED <<url, strip_tracking, cleaned, load, now, nextId, sessions, lock, playwright, browser,
                 created_at, files_to_upload, error, temp_dir, reaper, shut>>

\* perform_uploads_failed without session.error = str(e).
perform_uploads_failedOff(s, i) ==
  /\ Running(P("upload", s, "item", i))
  /\ state' = [state EXCEPT ![s] = "error"]
  /\ procs' = Spawn(Kill(procs, P("upload", s, "item", i)),
                    P("upload", s, CleanupStage(s), 0))
  /\ ret' = NoRet
  /\ waited2fa' = WaitedAfter(state')
  /\ UNCHANGED <<url, strip_tracking, cleaned, load, now, nextId, sessions, lock,
                 playwright, browser, created_at, files_to_upload,
                 current_file_index, results, error, temp_dir, reaper, shut>>

\* The await of the worker raises: the except branch of _perform_uploads.
perform_uploads_failed(s, i) ==
  /\ Running(P("upload", s, "item", i))
  /\ state' = [state EXCEPT ![s] = "error"]
  /\ error' = [error EXCEPT ![s] = TRUE]
  /\ procs' = Spawn(Kill(procs, P("upload", s, "item", i)),
                    P("upload", s, CleanupStage(s), 0))
  /\ ret' = NoRet
  /\ waited2fa' = WaitedAfter(state')
  /\ UNCHANGED <<url, strip_tracking, cleaned, load, now, nextId, sessions, lock, playwright, browser,
                 created_at, files_to_upload, current_file_index, results,
                 temp_dir, reaper, shut>>

\* _cleanup_browser of the finally branch is through; the task ends.
perform_uploads_cleaned(s) ==
  \E stage \in {"closing", "stopping", "noop"} :
    /\ Running(P("upload", s, stage, 0))
    /\ browser' = [browser EXCEPT ![s] = BrowserAfter(s, stage)]
    /\ playwright' = [playwright EXCEPT ![s] = PlaywrightAfter(s, stage)]
    /\ procs' = Kill(procs, P("upload", s, stage, 0))
    /\ ret' = NoRet
    /\ UNCHANGED <<url, strip_tracking, cleaned, load, now, nextId, sessions, lock, state, created_at,
                   files_to_upload, current_file_index, results, error,
                   temp_dir, reaper, shut, waited2fa>>

\* ----------------------------------------------------------------- reaper
Idle(pc) == [pc |-> pc, todo |-> <<>>, cur |-> 0, stage |-> "noop"]

\* The list comprehension also selecting the sessions that wait for a code.
ExpiredOff ==
  SortedSeq({s \in sessions :
               is_expired(s) \/ state[s] \in Terminal \/ state[s] = "awaiting_2fa"})

\* The list comprehension of _cleanup_expired_sessions.
Expired ==
  SortedSeq({s \in sessions : is_expired(s) \/ state[s] \in Terminal})

\* cleanup_loop wakes from its sleep and runs _cleanup_expired_sessions up to
\* its first await: the scan under the lock, the pop of the first expired
\* session and the dispatch of its _cleanup_session.
cleanup_expired_sessions ==
  /\ reaper.pc = "sleep"
  /\ shut.pc = "idle"
  /\ lock = "free"
  /\ IF Expired = <<>>
     THEN /\ ret' = Ret("reaper", 0, "swept")
          /\ UNCHANGED <<sessions, lock, reaper>>
     ELSE /\ sessions' = sessions \ {Head(Expired)}
          /\ lock' = "reaper"
          /\ reaper' = [pc |-> "cleaning", todo |-> Tail(Expired),
                        cur |-> Head(Expired),
                        stage |-> CleanupStage(Head(Expired))]
          /\ ret' = NoRet
  /\ UNCHANGED <<url, strip_tracking, cleaned, load, now, nextId, sessVars, procs, shut, waited2fa>>

\* cleanup_expired_sessions_cleaned with the lock kept at the end of the
\* sweep.
cleanup_expired_sessions_cleanedOff ==
  /\ reaper.pc = "cleaning"
  /\ shut.pc = "idle"
  /\ browser' = [browser EXCEPT ![reaper.cur] = BrowserAfter(reaper.cur, reaper.stage)]
  /\ playwright' =
       [playwright EXCEPT ![reaper.cur] = PlaywrightAfter(reaper.cur, reaper.stage)]
  /\ temp_dir' = [temp_dir EXCEPT ![reaper.cur] = FALSE]
  /\ LET rest == SelectSeq(reaper.todo, LAMBDA s : s \in sessions) IN
     IF rest = <<>>
     THEN /\ reaper' = Idle("sleep")
          /\ lock' = lock
          /\ sessions' = sessions
          /\ ret' = Ret("reaper", 0, "swept")
     ELSE /\ reaper' = [pc |-> "cleaning", todo |-> Tail(rest),
                        cur |-> Head(rest), stage |-> CleanupStage(Head(rest))]
          /\ lock' = lock
          /\ sessions' = sessions \ {Head(rest)}
          /\ ret' = NoRet
  /\ UNCHANGED <<url, strip_tracking, cleaned, load, now, nextId, state, created_at, files_to_upload,
                 current_file_index, results, error, procs, shut, waited2fa>>

\* _cleanup_session of the reaper is through for reaper.cur; the loop pops
\* the next expired session that is still registered, or the sweep ends.
cleanup_expired_sessions_cleaned ==
  /\ reaper.pc = "cleaning"
  /\ shut.pc = "idle"
  /\ browser' = [browser EXCEPT ![reaper.cur] = BrowserAfter(reaper.cur, reaper.stage)]
  /\ playwright' =
       [playwright EXCEPT ![reaper.cur] = PlaywrightAfter(reaper.cur, reaper.stage)]
  /\ temp_dir' = [temp_dir EXCEPT ![reaper.cur] = FALSE]
  /\ LET rest == SelectSeq(reaper.todo, LAMBDA s : s \in sessions) IN
     IF rest = <<>>
     THEN /\ reaper' = Idle("sleep")
          /\ lock' = "free"
          /\ sessions' = sessions
          /\ ret' = Ret("reaper", 0, "swept")
     ELSE /\ reaper' = [pc |-> "cleaning", todo |-> Tail(rest),
                        cur |-> Head(rest), stage |-> CleanupStage(Head(rest))]
          /\ lock' = lock
          /\ sessions' = sessions \ {Head(rest)}
          /\ ret' = NoRet
  /\ UNCHANGED <<url, strip_tracking, cleaned, load, now, nextId, state, created_at, files_to_upload,
                 current_file_index, results, error, procs, shut, waited2fa>>

\* --------------------------------------------------------------- shutdown
\* shutdown() once it holds the lock: the loop over list(self._sessions
\* .values()) up to its first await, or clear() when there is no session.
ShutdownLoop ==
  IF sessions = {}
  THEN /\ shut' = Idle("done")
       /\ lock' = "free"
       /\ ret' = Ret("shutdown", 0, "done")
  ELSE /\ shut' = [pc |-> "cleaning", todo |-> Tail(SortedSeq(sessions)),
                   cur |-> Head(SortedSeq(sessions)),
                   stage |-> CleanupStage(Head(SortedSeq(sessions)))]
       /\ lock' = "shutdown"
       /\ ret' = NoRet

\* The lifespan handler at shutdown: cleanup_task.cancel(), which makes the
\* reaper leave its sweep at the await it is in (the worker it started runs
\* on, the lock is released), then shutdown(), which takes the lock.
lifespan_shutdown ==
  /\ shut.pc = "idle"
  /\ reaper' = Idle("stopped")
  /\ IF reaper.pc = "cleaning"
     THEN /\ procs' = Spawn(procs, P("orphan", reaper.cur, reaper.stage, 0))
          /\ shut' = Idle("lock")
          /\ lock' = "free"
          /\ ret' = NoRet
     ELSE /\ procs' = procs
          /\ ShutdownLoop
  /\ UNCHANGED <<url, strip_tracking, cleaned, load, now, nextId, sessions, sessVars, waited2fa>>

\* shutdown() gets the lock it was waiting for.
shutdown_locked ==
  /\ shut.pc = "lock"
  /\ lock = "free"
  /\ ShutdownLoop
  /\ UNCHANGED <<url, strip_tracking, cleaned, load, now, nextId, sessions, sessVars, procs, reaper,
                 waited2fa>>

\* _cleanup_session of shutdown() is through for shut.cur; the loop goes to
\* the next session of its list, or clears the registry and ends.
shutdown_cleaned ==
  /\ shut.pc = "cleaning"
  /\ browser' = [browser EXCEPT ![shut.cur] = BrowserAfter(shut.cur, shut.stage)]
  /\ playwright' =
       [playwright EXCEPT ![shut.cur] = PlaywrightAfter(shut.cur, shut.stage)]
  /\ temp_dir' = [temp_dir EXCEPT ![shut.cur] = FALSE]
  /\ IF shut.todo = <<>>
     THEN /\ shut' = Idle("done")
          /\ lock' = "free"
          /\ sessions' = {}
          /\ ret' = Ret("shutdown", 0, "done")
     ELSE /\ shut' = [pc |-> "cleaning", todo |-> Tail(shut.todo),
                      cur |-> Head(shut.todo),
                      stage |-> CleanupStage(Head(shut.todo))]
          /\ lock' = lock
          /\ sessions' = sessions
          /\ ret' = NoRet
  /\ UNCHANGED <<url, strip_tracking, cleaned, load, now, nextId, state, created_at, files_to_upload,
                 current_file_index, results, error, procs, reaper,
                 waited2fa>>

\* The cleanup worker the cancelled reaper left behind is through.
orphan_cleaned(s) ==
  \E stage \in {"closing", "stopping", "noop"} :
    /\ Running(P("orphan", s, stage, 0))
    /\ browser' = [browser EXCEPT ![s] = BrowserAfter(s, stage)]
    /\ playwright' = [playwright EXCEPT ![s] = PlaywrightAfter(s, stage)]
    /\ procs' = Kill(procs, P("orphan", s, stage, 0))
    /\ ret' = NoRet
    /\ UNCHANGED <<url, strip_tracking, cleaned, load, now, nextId, sessions, lock, state, created_at,
                   files_to_upload, current_file_index, results, error,
                   temp_dir, reaper, shut, waited2fa>>

Next ==
  \/ Tick
  \/ \E n \in 1..MaxFiles : create_session(n)
  \/ \E s \in Ids : create_session_locked(s)
  \/ \E s \in Ids : sync_initialize_browser_started(s)
  \/ \E s \in Ids : initialize_browser_done(s)
  \/ \E s \in Ids, launched \in BOOLEAN : initialize_browser_failed(s, launched)
  \/ \E s \in Ids : create_session_cleaned(s)
  \/ \E s \in Ids, o \in {"ok", "needs_2fa", "error"} : perform_login_done(s, o)
  \/ \E s \in Ids : submit_2fa(s)
  \/ \E s \in Ids, o \in {"ok", "invalid", "raise"} : submit_2fa_done(s, o)
  \/ \E s \in Ids : cancel_session(s)
  \/ \E s \in Ids : cancel_session_cleaned(s)
  \/ \E s \in Ids : cancel_session_locked(s)
  \/ \E s \in Ids : perform_uploads(s)
  \/ \E s \in Ids, i \in 0..(MaxFiles - 1), ok \in BOOLEAN :
        sync_upload_file_done(s, i, ok)
  \/ \E s \in Ids, i \in 0..(MaxFiles - 1) : perform_uploads_failed(s, i)
  \/ \E s \in Ids : perform_uploads_cleaned(s)
  \/ cleanup_expired_sessions
  \/ cleanup_expired_sessions_cleaned
  \/ lifespan_shutdown
  \/ shutdown_locked
  \/ shutdown_cleaned
  \/ \E s \in Ids : orphan_cleaned(s)

Spec == Init /\ [][Next]_vars

\* The event loop runs a task that was created, and a file upload that was
\* handed to the worker pool returns.
Fairness ==
  \A s \in Ids :
    /\ WF_vars(perform_uploads(s))
    /\ WF_vars(\E i \in 0..(MaxFiles - 1), ok \in BOOLEAN :
                  sync_upload_file_done(s, i, ok))

\* Client traffic under which progress is checked: upload requests of one
\* file each, one call in flight at a time; or one upload request of
\* several files with a single submit_2fa in flight.
LiveLoads ==
  { [ids |-> NumIds - 1, files |-> 1, submits |-> 1, cancels |-> 1,
     overlap |-> MaxOverlap, tick |-> LongTick],
    [ids |-> 1, files |-> MaxFiles, submits |-> 1, cancels |-> 1,
     overlap |-> Unlimited, tick |-> ShortTick] }

LiveInit == InitWith(LiveLoads) /\ UrlIdle

LiveSpec == LiveInit /\ [][Next]_vars /\ Fairness

\* Every call handed to the worker pool returns, and the event loop resumes
\* a coroutine whose await is over or whose lock is free.
GuardFairness ==
  /\ WF_vars(cleanup_expired_sessions_cleaned)
  /\ WF_vars(shutdown_locked)
  /\ WF_vars(shutdown_cleaned)
  /\ \A s \in Ids :
       /\ WF_vars(create_session_locked(s))
       /\ WF_vars(sync_initialize_browser_started(s))
       /\ WF_vars(initialize_browser_done(s)
                    \/ \E launched \in BOOLEAN : initialize_browser_failed(s, launched))
       /\ WF_vars(create_session_cleaned(s))
       /\ WF_vars(\E o \in {"ok", "needs_2fa", "error"} : perform_login_done(s, o))
       /\ WF_vars(cancel_session_cleaned(s))
       /\ WF_vars(cancel_session_locked(s))
       /\ WF_vars(orphan_cleaned(s))

GuardSpec == LiveInit /\ [][Next]_vars /\ GuardFairness

\* ------------------------------------------------------- get_session_status
\* get_session_status looking at the session object instead of the registry.
get_session_statusOff(s) ==
  /\ ret' = Ret("status", s, IF state[s] # "none" THEN state[s] ELSE "not_found")
  /\ UNCHANGED <<url, strip_tracking, cleaned, load, now, nextId, sessions, lock,
                 sessVars, procs, reaper, shut, waited2fa>>

\* get_session_status: None when the id is not in self._sessions, else the
\* fields of the session (here its state).
get_session_status(s) ==
  /\ ret' = Ret("status", s, IF s \in sessions THEN state[s] ELSE "not_found")
  /\ UNCHANGED <<url, strip_tracking, cleaned, load, now, nextId, sessions, lock,
                 sessVars, procs, reaper, shut, waited2fa>>

\* The manager with clients that also poll the status.
StatusNext ==
  \/ Next
  \/ \E s \in Ids : get_session_status(s)

StatusSpec == LiveInit /\ [][StatusNext]_vars

\* ------------------------------------------------- teardown that raises
\* The error of the teardown leaving _cleanup_session: the rmtree is skipped
\* and the loop of _cleanup_expired_sessions is left with the sessions it
\* had not reached yet still registered.
cleanup_expired_sessions_raisedOff(at) ==
  /\ reaper.pc = "cleaning"
  /\ shut.pc = "idle"
  /\ reaper.stage # "noop"
  /\ at = "close" => reaper.stage = "closing"
  /\ browser' = IF at = "close" THEN browser
                ELSE [browser EXCEPT ![reaper.cur] = BrowserAfter(reaper.cur, reaper.stage)]
  /\ reaper' = Idle("sleep")
  /\ lock' = "free"
  /\ ret' = Ret("reaper", reaper.cur, "teardown_error")
  /\ UNCHANGED <<url, strip_tracking, cleaned, load, now, nextId, sessions, state, playwright,
                 created_at, files_to_upload, current_file_index, results,
                 error, temp_dir, procs, shut, waited2fa>>

\* browser.close() (at = "close") or playwright.stop() (at = "stop") raises
\* in the reaper's _sync_cleanup_browser: the bare except swallows it, the
\* field of the call that raised and the ones after it keep their objects,
\* _cleanup_session goes on to the rmtree and the loop to the next session.
cleanup_expired_sessions_raised(at) ==
  /\ reaper.pc = "cleaning"
  /\ shut.pc = "idle"
  /\ reaper.stage # "noop"
  /\ at = "close" => reaper.stage = "closing"
  /\ browser' = IF at = "close" THEN browser
                ELSE [browser EXCEPT ![reaper.cur] = BrowserAfter(reaper.cur, reaper.stage)]
  /\ temp_dir' = [temp_dir EXCEPT ![reaper.cur] = FALSE]
  /\ LET rest == SelectSeq(reaper.todo, LAMBDA s : s \in sessions) IN
     IF rest = <<>>
     THEN /\ reaper' = Idle("sleep")
          /\ lock' = "free"
          /\ sessions' = sessions
     ELSE /\ reaper' = [pc |-> "cleaning", todo |-> Tail(rest),
                        cur |-> Head(rest), stage |-> CleanupStage(Head(rest))]
          /\ lock' = lock
          /\ sessions' = sessions \ {Head(rest)}
  /\ ret' = Ret("reaper", reaper.cur, "teardown_error")
  /\ UNCHANGED <<url, strip_tracking, cleaned, load, now, nextId, state, playwright, created_at,
                 files_to_upload, current_file_index, results, error, procs,
                 shut, waited2fa>>

\* The manager with a browser whose close() and stop() may raise under the
\* reaper.
RaisingNext ==
  \/ Next
  \/ \E at \in {"close", "stop"} : cleanup_expired_sessions_raised(at)

RaisingSpec == LiveInit /\ [][RaisingNext]_vars

\* ---------------------------------------------------------------- clean_url
\* Most query parameters of a URL handed to clean_url.
MaxParams == 3

\* TRACKING_PARAMS (src/app/services/email_beautifier.py)
TRACKING_PARAMS ==
  {"utm_source", "utm_medium", "utm_campaign", "utm_term", "utm_content",
   "utm_id", "utm_source_platform", "utm_creative_format",
   "utm_marketing_tactic", "fbclid", "gclid", "msclkid", "_ga", "mc_cid",
   "mc_eid", "mkt_tok", "trk", "trkid", "icid", "igshid", "zanpid", "s_src",
   "aff", "ref", "ref_src", "ref_cid", "cmpid"}

\* Parameter names and values of the URLs explored.
ParamNames == {"utm_source", "UTM_Source", "aff", "page", "Page"}
ParamValues == {"", "1", "2", "a+b"}
Params == [name : ParamNames, val : ParamValues]

RECURSIVE SeqsUpTo(_, _)
SeqsUpTo(S, n) ==
  IF n = 0 THEN {<<>>}
  ELSE LET shorter == SeqsUpTo(S, n - 1)
       IN shorter \cup {Append(q, x) : q \in shorter, x \in S}

\* str.lower over ParamNames
Lower(n) ==
  CASE n = "UTM_Source" -> "utm_source"
    [] n = "Page" -> "page"
    [] OTHER -> n

\* The decoding parse_qs applies to a value: '+' is a space.
Unquote(v) == IF v = "a+b" THEN "a b" ELSE v

\* parse_qs adds one name=value pair to its dict d (insertion-ordered, one
\* list of values per name).
Put(d, p) ==
  IF \E k \in 1..Len(d) : d[k].key = p.name
  THEN [k \in 1..Len(d) |->
          IF d[k].key = p.name
          THEN [key |-> d[k].key, vals |-> Append(d[k].vals, Unquote(p.val))]
          ELSE d[k]]
  ELSE Append(d, [key |-> p.name, vals |-> <<Unquote(p.val)>>])

\* parse_qs(parsed.query, keep_blank_values=True)
RECURSIVE parse_qs(_, _)
parse_qs(d, q) == IF q = <<>> THEN d ELSE parse_qs(Put(d, Head(q)), Tail(q))

\* clean_url on the query q: the dict without the tracking names, rebuilt as
\* key=value[0] joined by '&'.
clean_url(q, strip) ==
  IF ~strip THEN q
  ELSE LET cleaned_params ==
             SelectSeq(parse_qs(<<>>, q),
                       LAMBDA e : Lower(e.key) \notin TRACKING_PARAMS)
       IN [k \in 1..Len(cleaned_params) |->
             [name |-> cleaned_params[k].key, val |-> cleaned_params[k].vals[1]]]

UrlInit ==
  /\ InitWith(LiveLoads)
  /\ url \in SeqsUpTo(Params, MaxParams)
  /\ strip_tracking \in BOOLEAN
  /\ cleaned = NotCalled

\* clean_url(url, strip_tracking) is called and returns.
clean_url_call ==
  /\ cleaned = NotCalled
  /\ cleaned' = clean_url(url, strip_tracking)
  /\ UNCHANGED <<url, strip_tracking, mgrVars>>

UrlNext == clean_url_call

UrlSpec == UrlInit /\ [][UrlNext]_vars

\* ================================================================== claims
Released(s) == ~browser[s] /\ ~playwright[s]

ProcsIn(b, s) == {p \in BagToSet(b) : p.sid = s}

\* An agent call of session s that was in flight returns in this step.
AgentCallReturns(s) ==
  \E p \in ProcsOf(s) :
    /\ p.op \in {"create", "submit", "upload"}
    /\ p.pc \in {"init", "launch", "login", "wait", "item"}
    /\ CopiesIn(p, procs') < CopiesIn(p, procs)

\* Cleanup workers that are inside browser.close() of session s.
Closers(s) ==
  LET ps == {p \in ProcsOf(s) : p.pc = "closing"}
      RECURSIVE Sum(_)
      Sum(S) == IF S = {} THEN 0
                ELSE LET p == CHOOSE q \in S : TRUE
                     IN CopiesIn(p, procs) + Sum(S \ {p})
  IN Sum(ps)
     + (IF reaper.pc = "cleaning" /\ reaper.cur = s /\ reaper.stage = "closing"
        THEN 1 ELSE 0)
     + (IF shut.pc = "cleaning" /\ shut.cur = s /\ shut.stage = "closing"
        THEN 1 ELSE 0)

\* Uploads of session s that are running on the worker pool.
UploadsInFlight(s) ==
  LET ps == {p \in ProcsOf(s) : p.op = "upload" /\ p.pc = "item"}
      RECURSIVE Sum(_)
      Sum(S) == IF S = {} THEN 0
                ELSE LET p == CHOOSE q \in S : TRUE
                     IN CopiesIn(p, procs) + Sum(S \ {p})
  IN Sum(ps)

\* C1: in every reachable state a session whose state is DONE, ERROR or
\* CANCELLED holds no live browser or playwright object.
C1_TerminalReleased ==
  \A s \in Ids : state[s] \in Terminal => Released(s)

\* C2: when an agent call that was in flight returns for a session that a
\* cancel has marked CANCELLED meanwhile, the session is still CANCELLED
\* afterwards; the outcome of the call is not applied over CANCELLED.
C2_CancelSupersedes ==
  [][\A s \in Ids :
       (AgentCallReturns(s) /\ state[s] = "cancelled")
          => state'[s] = "cancelled"]_vars

\* create_session of session s reaches its capacity check in this step.
CreateChecks(s) ==
  \/ nextId = s /\ nextId' = s + 1 /\ lock = "free"
  \/ /\ Running(P("create", s, "lock", 0))
     /\ ~BagIn(P("create", s, "lock", 0), procs')

\* C3: a create_session that finds max_concurrent_sessions entries in the
\* registry returns the capacity error, registers nothing (the returned id
\* is not found afterwards), leaves every other session as it was and starts
\* no browser initialization.
C3_CapacityRejects ==
  [][\A s \in Ids :
       (CreateChecks(s) /\ Cardinality(sessions) >= MaxConcurrentSessions)
          => /\ ret' = Ret("create", s, "capacity")
             /\ sessions' = sessions
             /\ s \notin sessions'
             /\ playwright' = playwright
             /\ browser' = browser
             /\ ProcsIn(procs', s) = {}
             /\ \A t \in Ids \ {s} :
                  /\ state'[t] = state[t]
                  /\ results'[t] = results[t]
                  /\ current_file_index'[t] = current_file_index[t]
                  /\ error'[t] = error[t]
                  /\ temp_dir'[t] = temp_dir[t]
                  /\ ProcsIn(procs', t) = ProcsIn(procs, t)]_vars

\* C3 witness: a create_session has just been turned away while the
\* registry held max_concurrent_sessions other sessions, one of them with a
\* live browser.
C3_Witness ==
  /\ ret.op = "create"
  /\ ret.val = "capacity"
  /\ ret.sid \notin sessions
  /\ Cardinality(sessions) = MaxConcurrentSessions
  /\ \E t \in sessions : browser[t]
  /\ Released(ret.sid)

C5_TeardownOnce == \A s \in Ids : Closers(s) <= 1

\* C6: from the start of the upload phase on, in every state another
\* operation can observe, current_file_index is at most the number of files
\* and the number of results equals current_file_index.
C6_CursorMatchesResults ==
  \A s \in Ids :
    (state[s] \in {"uploading", "done"} \/ results[s] # <<>>)
       => /\ current_file_index[s] <= files_to_upload[s]
          /\ Len(results[s]) = current_file_index[s]

\* C7: results[i] is the outcome of file i, at most one upload of a session
\* is in flight, and file i is in flight only once the results of the files
\* before it have been appended.
C7_ResultsInOrder ==
  \A s \in Ids :
    /\ \A k \in 1..Len(results[s]) : results[s][k][1] = k - 1
    /\ UploadsInFlight(s) <= 1
    /\ \A p \in ProcsOf(s) :
         (p.op = "upload" /\ p.pc = "item") => Len(results[s]) = p.i

\* C8: the return of submit_2fa for a wrong code changes neither the state
\* of any session, nor a browser handle, nor the registry, so a session that
\* was in AWAITING_2FA with a live handle stays so; a submit_2fa on a
\* registered session in AWAITING_2FA is never turned away as not found or
\* not awaiting; and a correct code returned to a session in AWAITING_2FA
\* moves it to AUTHENTICATED.
C8_WrongCodeKeepsWaiting ==
  [][\A s \in Ids :
       /\ ret' = Ret("submit", s, "invalid")
            => /\ state' = state
               /\ browser' = browser
               /\ playwright' = playwright
               /\ sessions' = sessions
       /\ (ret' = Ret("submit", s, "not_found")
             \/ ret' = Ret("submit", s, "not_awaiting"))
            => ~(s \in sessions /\ state[s] = "awaiting_2fa")
       /\ (ret' = Ret("submit", s, "ok") /\ state[s] = "awaiting_2fa")
            => state'[s] = "authenticated"]_vars

\* C8 witness: a wrong code has just been returned to a registered session
\* that is still in AWAITING_2FA with its browser live.
C8_Witness ==
  \E s \in sessions :
    /\ ret = Ret("submit", s, "invalid")
    /\ state[s] = "awaiting_2fa"
    /\ browser[s]
    /\ playwright[s]

\* C9: once a reaper sweep has completed, a session that has spent more than
\* max_2fa_wait_seconds in AWAITING_2FA is in ERROR with its handle released.
C9_SecondFactorTimeout ==
  ret = Ret("reaper", 0, "swept")
     => \A s \in Ids :
          waited2fa[s] > Max2faWaitSeconds
             => state[s] = "error" /\ Released(s)

\* C10: a cancel_session called on a registered session in a non-terminal
\* state returns true with the session in CANCELLED, its handle released and
\* its id no longer in the registry.
C10_CancelLeavesCancelled ==
  [][\A s \in Ids :
       (ret' = Ret("cancel", s, "true")
          /\ \E p \in ProcsOf(s) :
               /\ p.op = "cancel"
               /\ p.i = 1
               /\ CopiesIn(p, procs') < CopiesIn(p, procs))
       => /\ state'[s] = "cancelled"
          /\ ~browser'[s]
          /\ ~playwright'[s]
          /\ s \notin sessions']_vars

\* Cancel calls of session s that are past the lookup in the bag b.
CancelsIn(b, s) == {p \in ProcsIn(b, s) : p.op = "cancel"}

\* C11: for one session id at most one cancel_session returns true: when a
\* cancel_session returns true, no other cancel_session of that id has found
\* the session and is still on its way to returning true as well; and a
\* cancel_session that returns false changes nothing.
C11_OneCancelWins ==
  [][\A s \in Ids :
       /\ ret' = Ret("cancel", s, "true") => CancelsIn(procs', s) = {}
       /\ ret' = Ret("cancel", s, "false")
            => /\ sessVars' = sessVars
               /\ sessions' = sessions
               /\ procs' = procs]_vars

\* Blocking agent calls of a session: login, 2FA submit, file upload.
AgentCalls == {"login", "wait", "item"}

\* C12: while a session is marked CANCELLED no further login, 2FA submit or
\* file upload is dispatched to the worker pool for it.
C12_NoDispatchAfterCancel ==
  [][\A s \in Ids :
       state[s] = "cancelled"
          => \A p \in ProcsIn(procs', s) :
               p.pc \in AgentCalls => CopiesIn(p, procs') <= CopiesIn(p, procs)]_vars

InSeq(x, q) == \E k \in 1..Len(q) : q[k] = x

\* The reaper removes session s from the registry in this step.
ReaperEvicts(s) ==
  /\ s \in sessions
  /\ s \notin sessions'
  /\ reaper'.pc = "cleaning"
  /\ reaper'.cur = s

C14_TeardownBeforeRemoval ==
  (reaper.pc = "cleaning" /\ reaper.cur \notin sessions)
     => Released(reaper.cur)

\* C15: a session that is expired or terminal is in the end out of the
\* registry with its browser, playwright object and temp directory torn
\* down.  Nothing acts any more on a session that has left the registry
\* and has no coroutine or worker left, so such a session holds none of them.
C15_EvictedIsTornDown ==
  \A s \in Ids :
    (/\ shut.pc = "idle"
     /\ state[s] \notin {"none", "initializing"}
     /\ s \notin sessions
     /\ ProcsOf(s) = {}
     /\ ~(reaper.pc = "cleaning" /\ reaper.cur = s))
       => Released(s) /\ ~temp_dir[s]

Excused(s) ==
  \/ s \notin sessions
  \/ state[s] = "cancelled"
  \/ shut.pc # "idle"
  \/ error[s]

C18_TerminalAbsorbing ==
  [][\A s \in Ids : state[s] \in Terminal => state'[s] = state[s]]_vars

\* C19: a create_session that reaches its capacity check is turned away
\* exactly when the registry holds max_concurrent_sessions entries, and is
\* otherwise registered in INITIALIZING; a session for which cancel_session
\* has returned true is out of the registry and takes no slot.
C19_RejectedOnlyWhenFull ==
  [][\A s \in Ids :
       /\ CreateChecks(s)
            => IF Cardinality(sessions) = MaxConcurrentSessions
               THEN ret' = Ret("create", s, "capacity") /\ s \notin sessions'
               ELSE /\ ret' # Ret("create", s, "capacity")
                    /\ s \in sessions'
                    /\ state'[s] = "initializing"
       /\ ret' = Ret("cancel", s, "true") => s \notin sessions']_vars

\* C19 witness: with two sessions registered the first was cancelled, and
\* a third create_session has then been registered in INITIALIZING.
C19_Witness ==
  /\ NumIds >= 3
  /\ state[1] = "cancelled"
  /\ 1 \notin sessions
  /\ sessions = {2, 3}
  /\ state[3] = "initializing"
  /\ created_at[3] = created_at[1]

\* C20: a submit_2fa on a registered session that is not in AWAITING_2FA
\* returns the "not awaiting" failure and changes nothing: no session field,
\* not the registry, and no call is dispatched; a code is dispatched to the
\* agent only for a registered session in AWAITING_2FA.
C20_NotAwaitingIsNoop ==
  [][\A s \in Ids :
       /\ ret' = Ret("submit", s, "not_awaiting")
            => /\ s \in sessions
               /\ state[s] # "awaiting_2fa"
               /\ sessVars' = sessVars
               /\ sessions' = sessions
               /\ procs' = procs
       /\ CopiesIn(P("submit", s, "wait", 0), procs')
             > CopiesIn(P("submit", s, "wait", 0), procs)
            => s \in sessions /\ state[s] = "awaiting_2fa"
       /\ (ret'.op = "submit" /\ ret'.sid = s
             /\ ret'.val \in {"not_found", "not_awaiting"}
             /\ s \in sessions /\ state[s] # "awaiting_2fa")
            => ret'.val = "not_awaiting"]_vars

\* C20 witness: a submit_2fa has just been turned away as not awaiting on a
\* registered session that is uploading, with its upload still in flight.
C20_Witness ==
  \E s \in sessions :
    /\ ret = Ret("submit", s, "not_awaiting")
    /\ state[s] = "uploading"
    /\ UploadsInFlight(s) = 1

\* C21: a submit_2fa for a session older than session_timeout_seconds is a
\* no-op, swept by the reaper or not: no code is dispatched to the agent for
\* it, so that it is neither moved to AUTHENTICATED nor are its uploads
\* started.
C21_ExpiredSubmitIsNoop ==
  [][\A s \in Ids :
       (now - created_at[s] > SessionTimeoutSeconds /\ state[s] # "none")
          => CopiesIn(P("submit", s, "wait", 0), procs')
                <= CopiesIn(P("submit", s, "wait", 0), procs)]_vars

\* C22: get_session_status changes neither the registry nor any field of
\* any session nor anything that is running, and it returns not-found
\* exactly when the id is not in the registry.
C22_StatusIsPureRead ==
  [][ret'.op = "status"
       => /\ sessVars' = sessVars
          /\ sessions' = sessions
          /\ procs' = procs
          /\ lock' = lock
          /\ reaper' = reaper
          /\ shut' = shut
          /\ (ret'.val = "not_found") = (ret'.sid \notin sessions)
          /\ ret'.sid \in sessions => ret'.val = state[ret'.sid]]_vars

\* C22 witness: the status of a session that was registered and has since
\* been removed from the registry has just been asked for and was not found,
\* while another call is in flight.
C22_Witness ==
  /\ ret.op = "status"
  /\ ret.val = "not_found"
  /\ state[ret.sid] \notin {"none", "initializing"}
  /\ ret.sid \notin sessions
  /\ procs # EmptyBag

\* C23: once shutdown() has completed the registry is empty and no session
\* holds a live browser or playwright object.
C23_ShutdownReleasesAll ==
  shut.pc = "done" => sessions = {} /\ \A s \in Ids : Released(s)

\* C24: a session in ERROR has its error recorded.
C24_ErrorHasMessage == \A s \in Ids : state[s] = "error" => error[s]

\* C24 witness: a session is in ERROR after its upload run failed, with
\* the error recorded.
C24_Witness ==
  \E s \in Ids :
    /\ state[s] = "error"
    /\ error[s]
    /\ current_file_index[s] < files_to_upload[s]
    /\ \E p \in ProcsOf(s) : p.op = "upload"

\* C25: a create_session that is not turned away for capacity returns
\* AUTHENTICATED, AWAITING_2FA or ERROR, the state it has recorded for the
\* session: ERROR exactly when the initialization or the login failed, and
\* AUTHENTICATED only with the upload task created.
C25_CreateReturnsOutcome ==
  [][(ret'.op = "create" /\ ret'.val # "capacity")
       => /\ ret'.val \in {"authenticated", "awaiting_2fa", "error"}
          /\ ret'.val = state'[ret'.sid]
          /\ (ret'.val = "error") = error'[ret'.sid]
          /\ ret'.val = "authenticated"
               => BagIn(P("upload", ret'.sid, "new", 0), procs')]_vars

\* The query clean_url is to return for q: q without its tracking
\* parameters.
Stripped(q) == SelectSeq(q, LAMBDA p : Lower(p.name) \notin TRACKING_PARAMS)

\* C26: clean_url with strip_tracking returns the URL without the query
\* parameters whose lower-cased name is a tracking parameter and with every
\* other parameter kept with its value, repeated and blank ones included.
C26_CleanUrlKeepsOthers ==
  (cleaned # NotCalled /\ strip_tracking) => cleaned = Stripped(url)

\* Blocking agent calls of session s that are running on the worker pool.
AgentCallsInFlight(s) ==
  LET ps == {p \in ProcsOf(s) : p.pc \in {"init", "launch", "login", "wait", "item"}}
      RECURSIVE Sum(_)
      Sum(S) == IF S = {} THEN 0
                ELSE LET p == CHOOSE q \in S : TRUE
                     IN CopiesIn(p, procs) + Sum(S \ {p})
  IN Sum(ps)

\* C27: at most one blocking agent call (initialization, login, 2FA submit,
\* file upload) of a session is in flight at any time.
C27_OneAgentCallPerSession == \A s \in Ids : AgentCallsInFlight(s) <= 1

\* The edges of the state graph.
Edges ==
  {<<"initializing", "login">>, <<"login", "awaiting_2fa">>,
   <<"login", "authenticated">>, <<"awaiting_2fa", "authenticated">>,
   <<"authenticated", "uploading">>, <<"uploading", "done">>}

\* C28: every change of the state of a session out of a non-terminal state
\* follows an edge of the state graph or goes to ERROR or CANCELLED.
C28_StateGraph ==
  [][\A s \in Ids :
       (state[s] \in SessionState \ Terminal /\ state'[s] # state[s])
          => \/ <<state[s], state'[s]>> \in Edges
             \/ state'[s] \in {"error", "cancelled"}]_vars

\* C29: every session that holds a live browser or playwright object is in
\* the registry.
C29_NoHandleLeak ==
  \A s \in Ids : (browser[s] \/ playwright[s]) => s \in sessions

\* A teardown of session s is closing its browser or stopping its playwright.
TeardownRunning(s) ==
  \/ \E p \in ProcsOf(s) : p.pc \in {"closing", "stopping"}
  \/ reaper.pc = "cleaning" /\ reaper.cur = s /\ reaper.stage # "noop"
  \/ shut.pc = "cleaning" /\ shut.cur = s /\ shut.stage # "noop"

\* C30: no teardown of a session's handle runs while an initialization,
\* login, 2FA submit or file upload of that session is running on the worker
\* pool.
C30_TeardownNotDuringCall ==
  \A s \in Ids : ~(TeardownRunning(s) /\ AgentCallsInFlight(s) > 0)

\* C31: the registry lock is held only for the insert or delete itself: it is
\* never held while the reaper or shutdown() waits for a teardown on the
\* worker pool, and no create_session or cancel_session is left waiting for
\* the lock.
C31_GuardOnlyForMapUpdate ==
  /\ lock # "free" => ~(reaper.pc = "cleaning" \/ shut.pc = "cleaning")
  /\ \A p \in BagToSet(procs) : p.pc # "lock"

\* C32: a session has at most one _perform_uploads run, no file of it is
\* uploaded twice, and it never has more results than files.
C32_UploadPhaseOnce ==
  \A s \in Ids :
    /\ CountOf("upload", s) <= 1
    /\ Len(results[s]) <= files_to_upload[s]
    /\ \A j, k \in 1..Len(results[s]) :
         results[s][j][1] = results[s][k][1] => j = k

\* C33: a session the reaper evicts while it is recorded in a non-terminal
\* state is put in ERROR, with its error message set, by that eviction.
C33_TimeoutForcesError ==
  [][\A s \in Ids :
       (ReaperEvicts(s) /\ state[s] \notin Terminal)
          => (state'[s] = "error" /\ error'[s])]_vars

\* C34: a registered session in AWAITING_2FA holds a live browser, and an
\* agent call of it is on the worker pool only for a submit_2fa in progress.
C34_AwaitingIsSuspended ==
  \A s \in sessions :
    state[s] = "awaiting_2fa"
      => /\ browser[s]
         /\ \A p \in ProcsOf(s) :
              p.pc \in AgentCalls => (p.op = "submit" /\ p.pc = "wait")

\* C35: a temp directory that still exists belongs to a session that is
\* registered, or that waits for the lock to be registered, or that a
\* _cleanup_session of create_session, cancel_session or the reaper is
\* tearing down: something is left that will remove it.
C35_TempDirHasOwner ==
  \A s \in Ids :
    temp_dir[s]
      => \/ s \in sessions
         \/ \E p \in ProcsOf(s) : p.op \in {"create", "cancel"}
         \/ reaper.pc = "cleaning" /\ reaper.cur = s

\* The reaper is evicting session s, or shutdown() has drained the registry.
Drained(s) ==
  /\ s \notin sessions
  /\ \/ reaper.pc = "cleaning" /\ reaper.cur = s
     \/ shut.pc = "done"

\* C36: once the reaper evicts, or shutdown() has drained, a session that is
\* in UPLOADING, no further file of it goes to the worker pool and its
\* _perform_uploads run no longer changes its results, cursor or state.
C36_NoUploadAfterEviction ==
  [][\A s \in Ids :
       (Drained(s) /\ state[s] = "uploading")
          => /\ results'[s] = results[s]
             /\ current_file_index'[s] = current_file_index[s]
             /\ state'[s] # "done"
             /\ \A i \in 0..MaxFiles :
                  CopiesIn(P("upload", s, "item", i), procs')
                    <= CopiesIn(P("upload", s, "item", i), procs)]_vars

\* C37: a session that reaches DONE or ERROR keeps its registry entry, and a
\* create_session that finds max_concurrent_sessions entries, all of them in
\* DONE or ERROR, is rejected for capacity and registers nothing.
C37_TerminalCountsTowardCapacity ==
  [][\A s \in Ids :
       /\ (state'[s] \in {"done", "error"} /\ state[s] # state'[s] /\ s \in sessions)
             => s \in sessions'
       /\ ( /\ CreateChecks(s)
            /\ Cardinality(sessions) = MaxConcurrentSessions
            /\ \A t \in sessions : state[t] \in {"done", "error"} )
             => (ret' = Ret("create", s, "capacity") /\ sessions' = sessions)]_vars

\* A create_session was just rejected for capacity while every entry of the
\* full registry is in DONE or ERROR, one of them in DONE.
C37_Witness ==
  /\ ret.op = "create"
  /\ ret.val = "capacity"
  /\ Cardinality(sessions) = MaxConcurrentSessions
  /\ \A t \in sessions : state[t] \in {"done", "error"}
  /\ \E t \in sessions : state[t] = "done"

\* C38: when a teardown of the reaper ends in an error, the sweep goes on:
\* every session it had selected and that is still registered is the next
\* one evicted or stays on its list, the temp directory of the session whose
\* teardown failed is removed, and the reaper either continues the sweep or
\* goes back to sleep with the lock released.
C38_ReaperSurvivesTeardownError ==
  [][(reaper.pc = "cleaning" /\ reaper' # reaper /\ ret'.val = "teardown_error")
       => /\ \A t \in sessions :
               InSeq(t, reaper.todo)
                 => \/ t \notin sessions' /\ reaper'.pc = "cleaning" /\ reaper'.cur = t
                    \/ reaper'.pc = "cleaning" /\ InSeq(t, reaper'.todo)
          /\ ~temp_dir'[reaper.cur]
          /\ reaper'.pc \in {"cleaning", "sleep"}
          /\ reaper'.pc = "sleep" => lock' = "free"]_vars

\* The teardown of session s by the reaper has just ended in an error, its
\* handle is still live, and the sweep is tearing down the next session.
C38_Witness ==
  \E s \in Ids :
    /\ ret = Ret("reaper", s, "teardown_error")
    /\ browser[s] \/ playwright[s]
    /\ reaper.pc = "cleaning"
    /\ reaper.cur # s
    /\ s \notin sessions
    /\ reaper.cur \notin sessions

\* C39: when every call on the worker pool returns, the lock is always
\* released again, and every create_session, cancel_session, reaper sweep
\* and shutdown() that has started comes to its end.
C39_GuardAlwaysReleased ==
  /\ (lock # "free") ~> (lock = "free")
  /\ (reaper.pc = "cleaning") ~> (reaper.pc # "cleaning")
  /\ (shut.pc \in {"lock", "cleaning"}) ~> (shut.pc = "done")
  /\ \A s \in Ids :
       /\ (\E p \in ProcsOf(s) : p.op = "create")
            ~> ~(\E p \in ProcsOf(s) : p.op = "create")
       /\ (\E p \in ProcsOf(s) : p.op = "cancel")
            ~> ~(\E p \in ProcsOf(s) : p.op = "cancel")

\* The reaper has just ended a sweep and released the lock that a
\* create_session is waiting for.
C39_Witness ==
  /\ ret = Ret("reaper", 0, "swept")
  /\ lock = "free"
  /\ \E s \in Ids : Running(P("create", s, "lock", 0))
====
